---------------------------- MODULE Spec2Model ----------------------------
(***************************************************************************)
(* A model of package hotkey (src/hotkey.go): the EventChannel built by    *)
(* newEventChan (an unbuffered `in`, an unbuffered `out` and one worker    *)
(* goroutine that owns the queue q) and the Hotkey lifecycle (New,         *)
(* Register, Unregister, Keydown, Keyup and the finalizer set by New).     *)
(*                                                                         *)
(* Granularity: a goroutine's step runs from one blocking channel          *)
(* operation to the next; a send or receive on an unbuffered channel is a  *)
(* rendezvous, one step of both parties.  The worker's q is private to it. *)
(*                                                                         *)
(* Event is struct{} in the source.  The model gives every Event the       *)
(* number of the firing that produced it, so that order, loss and          *)
(* duplication can be stated; no action reads that number.                 *)
(*                                                                         *)
(* The platform part (platformHotkey, hk.register, hk.unregister and the   *)
(* callbacks that send on keydownIn / keyupIn) is not in src/; it is       *)
(* modelled from section 4.2, 6 and 7 of the specification.                *)
(***************************************************************************)
EXTENDS Naturals, Sequences, FiniteSets

\* Bounds of the model.
MaxChans  == 4      \* EventChannels allocated (New: two, a successful Unregister: two)
MaxCalls  == 2      \* Register and Unregister calls by the application
MaxEvents == 2      \* callback firings

ChanIds == 1..MaxChans
Tokens  == 1..MaxCalls

VARIABLES
    \* one EventChannel per id (src/hotkey.go:124-157)
    nchans,      \* EventChannels allocated so far
    wpc,         \* worker position: "none" | "recv" (l.131) | "select" (l.138)
                 \*                  | "drain" (l.148) | "done"
    q,           \* the worker's queue (l.128)
    inClosed,    \* close(in) has happened
    outClosed,   \* close(out) has happened (l.133, l.150)
    sendBuf,     \* the Event of a producer blocked in `in <- e`, or << >>
    \* the consumer of each channel's out
    cwait,       \* the consumer is blocked in `<-out`
    recvd,       \* the Events the consumer has received, in order
    sawClosed,   \* a receive returned the closed-indication
    \* the Hotkey (src/hotkey.go:51-61)
    keydownIn, keydownOut, keyupIn, keyupOut,
    token,       \* platformHotkey: the backend token, 0 when absent
    fpc,         \* the finalizer goroutine (l.78-83): "idle" | "l81" | "l82"
                 \*                                    | "done"
    ret,         \* the last lifecycle call and what it returned
    \* the registration backend
    live,        \* tokens the backend holds bound
    releases,    \* how often the backend released each token
    regCalls, unregCalls,
    \* history
    sent,        \* the Events each channel's worker accepted, in order
    nextEv,      \* firings so far
    panicked,    \* a Go run-time panic: "" | "send on closed channel"
                 \*                      | "close of closed channel"
    \* the package
    KeyMap       \* var KeyMap (src/hotkey.go:159-228)

chanVars == <<nchans, wpc, q, inClosed, outClosed, sendBuf>>
consVars == <<cwait, recvd, sawClosed>>
hkVars   == <<keydownIn, keydownOut, keyupIn, keyupOut, token, fpc, ret>>
beVars   == <<live, releases, regCalls, unregCalls>>
histVars == <<sent, nextEv, panicked>>
pkgVars  == <<KeyMap>>
vars     == <<chanVars, consVars, hkVars, beVars, histVars, pkgVars>>

Allocated == 1..nchans

\* The finalizer has been started: nothing refers to the Hotkey any more.
finalized == fpc # "idle"

IsPrefix(s, t) == /\ Len(s) <= Len(t)
                  /\ \A i \in 1..Len(s) : s[i] = t[i]

-----------------------------------------------------------------------------
\* var KeyMap (src/hotkey.go:159-228): each key name with the Key constant it is
\* bound to (the constants' values are the platform's).
keyMapLiteral ==
    [
     KeySpace |-> "KeySpace", Key1 |-> "Key1", Key2 |-> "Key2",
     Key3 |-> "Key3", Key4 |-> "Key4", Key5 |-> "Key5", Key6 |-> "Key6",
     Key7 |-> "Key7", Key8 |-> "Key8", Key9 |-> "Key9", Key0 |-> "Key0",
     KeyA |-> "KeyA", KeyB |-> "KeyB", KeyC |-> "KeyC", KeyD |-> "KeyD",
     KeyE |-> "KeyE", KeyF |-> "KeyF", KeyG |-> "KeyG", KeyH |-> "KeyH",
     KeyI |-> "KeyI", KeyJ |-> "KeyJ", KeyK |-> "KeyK", KeyL |-> "KeyL",
     KeyM |-> "KeyM", KeyN |-> "KeyN", KeyO |-> "KeyO", KeyP |-> "KeyP",
     KeyQ |-> "KeyQ", KeyR |-> "KeyR", KeyS |-> "KeyS", KeyT |-> "KeyT",
     KeyU |-> "KeyU", KeyV |-> "KeyV", KeyW |-> "KeyW", KeyX |-> "KeyX",
     KeyY |-> "KeyY", KeyZ |-> "KeyZ", KeyReturn |-> "KeyReturn",
     KeyEscape |-> "KeyEscape", KeyDelete |-> "KeyDelete",
     KeyTab |-> "KeyTab", KeyLeft |-> "KeyLeft", KeyRight |-> "KeyRight",
     KeyUp |-> "KeyUp", KeyDown |-> "KeyDown", KeyF1 |-> "KeyF1",
     KeyF2 |-> "KeyF2", KeyF3 |-> "KeyF3", KeyF4 |-> "KeyF4",
     KeyF5 |-> "KeyF5", KeyF6 |-> "KeyF6", KeyF7 |-> "KeyF7",
     KeyF8 |-> "KeyF8", KeyF9 |-> "KeyF9", KeyF10 |-> "KeyF10",
     KeyF11 |-> "KeyF11", KeyF12 |-> "KeyF12", KeyF13 |-> "KeyF13",
     KeyF14 |-> "KeyF14", KeyF15 |-> "KeyF15", KeyF16 |-> "KeyF16",
     KeyF17 |-> "KeyF17", KeyF18 |-> "KeyF18", KeyF19 |-> "KeyF19",
     KeyF20 |-> "KeyF20"
    ]

\* keyMapKeys of TestKeyMap (src/hotkey_test.go:24).
keyMapKeys ==
    <<
     "KeySpace", "Key1", "Key2", "Key3", "Key4", "Key5", "Key6", "Key7",
     "Key8", "Key9", "Key0", "KeyA", "KeyB", "KeyC", "KeyD", "KeyE", "KeyF",
     "KeyG", "KeyH", "KeyI", "KeyJ", "KeyK", "KeyL", "KeyM", "KeyN", "KeyO",
     "KeyP", "KeyQ", "KeyR", "KeyS", "KeyT", "KeyU", "KeyV", "KeyW", "KeyX",
     "KeyY", "KeyZ", "KeyReturn", "KeyEscape", "KeyDelete", "KeyTab",
     "KeyLeft", "KeyRight", "KeyUp", "KeyDown", "KeyF1", "KeyF2", "KeyF3",
     "KeyF4", "KeyF5", "KeyF6", "KeyF7", "KeyF8", "KeyF9", "KeyF10",
     "KeyF11", "KeyF12", "KeyF13", "KeyF14", "KeyF15", "KeyF16", "KeyF17",
     "KeyF18", "KeyF19", "KeyF20"
    >>

-----------------------------------------------------------------------------
\* newEventChan (src/hotkey.go:124-157): what a fresh channel starts as: in and
\* out open (l.125), q empty (l.128), the worker at its first `<-in` (l.131).
newEventChan == [wpc |-> "recv", q |-> << >>, inClosed |-> FALSE,
                 outClosed |-> FALSE]

\* New handing out one EventChannel as the key-down and as the key-up channel.
NewSharesChannel ==
    /\ nchans = 2
    /\ wpc = [c \in ChanIds |-> IF c \in {1, 2} THEN newEventChan.wpc ELSE "none"]
    /\ q = [c \in ChanIds |-> newEventChan.q]
    /\ inClosed = [c \in ChanIds |-> newEventChan.inClosed]
    /\ outClosed = [c \in ChanIds |-> newEventChan.outClosed]
    /\ sendBuf = [c \in ChanIds |-> << >>]
    /\ cwait = [c \in ChanIds |-> FALSE]
    /\ recvd = [c \in ChanIds |-> << >>]
    /\ sawClosed = [c \in ChanIds |-> FALSE]
    /\ keydownIn = 1 /\ keydownOut = 1
    /\ keyupIn = 1 /\ keyupOut = 1
    /\ token = 0
    /\ fpc = "idle"
    /\ ret = <<"New", "ok">>
    /\ live = {}
    /\ releases = [t \in Tokens |-> 0]
    /\ regCalls = 0 /\ unregCalls = 0
    /\ sent = [c \in ChanIds |-> << >>]
    /\ nextEv = 0
    /\ panicked = ""
    /\ KeyMap = keyMapLiteral

\* The package's variable initializers and New (src/hotkey.go:64-85): two fresh
\* channels, no registration.
Init ==
    /\ nchans = 2
    /\ wpc = [c \in ChanIds |-> IF c \in {1, 2} THEN newEventChan.wpc ELSE "none"]
    /\ q = [c \in ChanIds |-> newEventChan.q]
    /\ inClosed = [c \in ChanIds |-> newEventChan.inClosed]
    /\ outClosed = [c \in ChanIds |-> newEventChan.outClosed]
    /\ sendBuf = [c \in ChanIds |-> << >>]
    /\ cwait = [c \in ChanIds |-> FALSE]
    /\ recvd = [c \in ChanIds |-> << >>]
    /\ sawClosed = [c \in ChanIds |-> FALSE]
    /\ keydownIn = 1 /\ keydownOut = 1
    /\ keyupIn = 2 /\ keyupOut = 2
    /\ token = 0
    /\ fpc = "idle"
    /\ ret = <<"New", "ok">>
    /\ live = {}
    /\ releases = [t \in Tokens |-> 0]
    /\ regCalls = 0 /\ unregCalls = 0
    /\ sent = [c \in ChanIds |-> << >>]
    /\ nextEv = 0
    /\ panicked = ""
    /\ KeyMap = keyMapLiteral

-----------------------------------------------------------------------------
\* The worker goroutine of channel c (src/hotkey.go:127-155).

\* l.131, ok, l.136: at the outer `<-in` the worker takes the Event of a
\* blocked sender, appends it and enters the inner loop (len(q) > 0).
WorkerRecv(c) ==
    /\ panicked = ""
    /\ wpc[c] = "recv"
    /\ ~inClosed[c]
    /\ sendBuf[c] # << >>
    /\ q' = [q EXCEPT ![c] = Append(@, sendBuf[c][1])]
    /\ sent' = [sent EXCEPT ![c] = Append(@, sendBuf[c][1])]
    /\ sendBuf' = [sendBuf EXCEPT ![c] = << >>]
    /\ wpc' = [wpc EXCEPT ![c] = "select"]
    /\ UNCHANGED <<nchans, inClosed, outClosed, consVars, hkVars, beVars,
                   nextEv, panicked, KeyMap>>

\* l.131-135: the outer `<-in` finds in closed: close(out) and return.
WorkerExit(c) ==
    /\ panicked = ""
    /\ wpc[c] = "recv"
    /\ inClosed[c]
    /\ outClosed' = [outClosed EXCEPT ![c] = TRUE]
    /\ wpc' = [wpc EXCEPT ![c] = "done"]
    /\ UNCHANGED <<nchans, q, inClosed, sendBuf, consVars, hkVars, beVars,
                   histVars, KeyMap>>

\* l.139-141: the select's `out <- q[0]` meets a waiting consumer; the head is
\* dropped; with q empty the inner loop ends and the worker is back at l.131.
WorkerSelectOut(c) ==
    /\ panicked = ""
    /\ wpc[c] = "select"
    /\ cwait[c]
    /\ recvd' = [recvd EXCEPT ![c] = Append(@, Head(q[c]))]
    /\ cwait' = [cwait EXCEPT ![c] = FALSE]
    /\ q' = [q EXCEPT ![c] = Tail(@)]
    /\ wpc' = [wpc EXCEPT ![c] = IF Len(q[c]) > 1 THEN "select" ELSE "recv"]
    /\ UNCHANGED <<nchans, inClosed, outClosed, sendBuf, sawClosed, hkVars,
                   beVars, histVars, KeyMap>>

\* WorkerSelectIn putting the new Event in front of q instead of behind it.
WorkerSelectInFront(c) ==
    /\ panicked = ""
    /\ wpc[c] = "select"
    /\ ~inClosed[c]
    /\ sendBuf[c] # << >>
    /\ q' = [q EXCEPT ![c] = <<sendBuf[c][1]>> \o @]
    /\ sent' = [sent EXCEPT ![c] = Append(@, sendBuf[c][1])]
    /\ sendBuf' = [sendBuf EXCEPT ![c] = << >>]
    /\ UNCHANGED <<nchans, wpc, inClosed, outClosed, consVars, hkVars, beVars,
                   nextEv, panicked, KeyMap>>

\* l.142-146: the select's `<-in` takes the Event of a blocked sender.
WorkerSelectIn(c) ==
    /\ panicked = ""
    /\ wpc[c] = "select"
    /\ ~inClosed[c]
    /\ sendBuf[c] # << >>
    /\ q' = [q EXCEPT ![c] = Append(@, sendBuf[c][1])]
    /\ sent' = [sent EXCEPT ![c] = Append(@, sendBuf[c][1])]
    /\ sendBuf' = [sendBuf EXCEPT ![c] = << >>]
    /\ UNCHANGED <<nchans, wpc, inClosed, outClosed, consVars, hkVars, beVars,
                   nextEv, panicked, KeyMap>>

\* WorkerSelectClosed without the range loop of l.147-149: close(out) at once.
WorkerSelectClosedNoDrain(c) ==
    /\ panicked = ""
    /\ wpc[c] = "select"
    /\ inClosed[c]
    /\ wpc' = [wpc EXCEPT ![c] = "done"]
    /\ outClosed' = [outClosed EXCEPT ![c] = TRUE]
    /\ UNCHANGED <<nchans, q, inClosed, sendBuf, consVars, hkVars, beVars,
                   histVars, KeyMap>>

\* l.142, !ok: the select's `<-in` finds in closed; the worker goes on to the
\* range loop of l.147 and blocks in its first `out <- e` (q is not empty).
WorkerSelectClosed(c) ==
    /\ panicked = ""
    /\ wpc[c] = "select"
    /\ inClosed[c]
    /\ wpc' = [wpc EXCEPT ![c] = "drain"]
    /\ UNCHANGED <<nchans, q, inClosed, outClosed, sendBuf, consVars, hkVars,
                   beVars, histVars, KeyMap>>

\* WorkerDrain sending q[0] only and then closing out.
WorkerDrainFirstOnly(c) ==
    /\ panicked = ""
    /\ wpc[c] = "drain"
    /\ cwait[c]
    /\ recvd' = [recvd EXCEPT ![c] = Append(@, Head(q[c]))]
    /\ cwait' = [cwait EXCEPT ![c] = FALSE]
    /\ q' = [q EXCEPT ![c] = Tail(@)]
    /\ wpc' = [wpc EXCEPT ![c] = "done"]
    /\ outClosed' = [outClosed EXCEPT ![c] = TRUE]
    /\ UNCHANGED <<nchans, inClosed, sendBuf, sawClosed, hkVars, beVars,
                   histVars, KeyMap>>

\* l.147-151: one `out <- e` of the range loop meets a waiting consumer; after
\* the last one, close(out) and return.
WorkerDrain(c) ==
    /\ panicked = ""
    /\ wpc[c] = "drain"
    /\ cwait[c]
    /\ recvd' = [recvd EXCEPT ![c] = Append(@, Head(q[c]))]
    /\ cwait' = [cwait EXCEPT ![c] = FALSE]
    /\ q' = [q EXCEPT ![c] = Tail(@)]
    /\ IF Len(q[c]) > 1
         THEN UNCHANGED <<wpc, outClosed>>
         ELSE /\ wpc' = [wpc EXCEPT ![c] = "done"]
              /\ outClosed' = [outClosed EXCEPT ![c] = TRUE]
    /\ UNCHANGED <<nchans, inClosed, sendBuf, sawClosed, hkVars, beVars,
                   histVars, KeyMap>>

-----------------------------------------------------------------------------
\* The consumer of a handle: `<-hk.Keydown()` as in the package example
\* (src/hotkey.go:33-35).

\* `<-out` on an open out: the consumer blocks until the worker sends or
\* closes.  The handle is one that Keydown() or Keyup() returned at some time
\* (every allocated channel was current once).
RecvBegin(c) ==
    /\ panicked = ""
    /\ c \in Allocated
    /\ ~cwait[c]
    /\ ~outClosed[c]
    /\ cwait' = [cwait EXCEPT ![c] = TRUE]
    /\ UNCHANGED <<chanVars, recvd, sawClosed, hkVars, beVars, histVars,
                   KeyMap>>

\* `<-out` on a closed out returns the closed-indication, to a consumer that was
\* blocked and to one that receives now (a receive on a closed channel never
\* blocks).
RecvClosed(c) ==
    /\ panicked = ""
    /\ outClosed[c]
    /\ cwait' = [cwait EXCEPT ![c] = FALSE]
    /\ sawClosed' = [sawClosed EXCEPT ![c] = TRUE]
    /\ UNCHANGED <<chanVars, recvd, hkVars, beVars, histVars, KeyMap>>

-----------------------------------------------------------------------------
\* The registration backend and platformHotkey (modelled from the
\* specification, sections 4.2, 6 and 7).

\* The callback context is single-threaded: at most one callback runs, and a
\* running callback is one blocked in its send.
callbackIdle == \A c \in ChanIds : sendBuf[c] = << >>

\* hk.register(): the backend binds the combination and returns a fresh token,
\* or refuses and changes nothing.  Over an existing registration the old token
\* is released first (once none of its callbacks is running).
register(ok) ==
    /\ regCalls' = regCalls + 1
    /\ IF ok
         THEN /\ token # 0 => callbackIdle
              /\ token' = regCalls + 1
              /\ live' = (live \ {token}) \cup {regCalls + 1}
              /\ releases' = IF token # 0
                                THEN [releases EXCEPT ![token] = @ + 1]
                                ELSE releases
         ELSE UNCHANGED <<token, live, releases>>
    /\ UNCHANGED unregCalls

\* hk.unregister(): the backend releases the token (once none of its callbacks
\* is running) or fails and changes nothing; with no token there is nothing to
\* release.
unregister(ok) ==
    /\ unregCalls' = unregCalls + 1
    /\ IF ok /\ token # 0
         THEN /\ callbackIdle
              /\ token' = 0
              /\ live' = live \ {token}
              /\ releases' = [releases EXCEPT ![token] = @ + 1]
         ELSE UNCHANGED <<token, live, releases>>
    /\ UNCHANGED regCalls

\* The callback bound by register: on key-down, `hk.keydownIn <- Event{}`.  A
\* send on a closed channel panics.
OnKeydown ==
    /\ panicked = ""
    /\ token \in live
    /\ callbackIdle
    /\ nextEv < MaxEvents
    /\ nextEv' = nextEv + 1
    /\ IF inClosed[keydownIn]
         THEN /\ panicked' = "send on closed channel"
              /\ UNCHANGED sendBuf
         ELSE /\ sendBuf' = [sendBuf EXCEPT ![keydownIn] = <<nextEv + 1>>]
              /\ UNCHANGED panicked
    /\ UNCHANGED <<nchans, wpc, q, inClosed, outClosed, consVars, hkVars,
                   beVars, sent, KeyMap>>

\* On key-up, `hk.keyupIn <- Event{}`.
OnKeyup ==
    /\ panicked = ""
    /\ token \in live
    /\ callbackIdle
    /\ nextEv < MaxEvents
    /\ nextEv' = nextEv + 1
    /\ IF inClosed[keyupIn]
         THEN /\ panicked' = "send on closed channel"
              /\ UNCHANGED sendBuf
         ELSE /\ sendBuf' = [sendBuf EXCEPT ![keyupIn] = <<nextEv + 1>>]
              /\ UNCHANGED panicked
    /\ UNCHANGED <<nchans, wpc, q, inClosed, outClosed, consVars, hkVars,
                   beVars, sent, KeyMap>>

-----------------------------------------------------------------------------
\* The Hotkey (src/hotkey.go:51-111).

\* close(hk.keydownIn); close(hk.keyupIn) of Unregister (l.106-107).  Closing a
\* closed channel panics, and so does the sender blocked on a channel that is
\* closed under it.
closeIns(d, u) ==
    /\ inClosed' = [inClosed EXCEPT ![d] = TRUE, ![u] = TRUE]
    /\ panicked' = IF inClosed[d] \/ inClosed[u] \/ d = u
                     THEN "close of closed channel"
                     ELSE IF sendBuf[d] # << >> \/ sendBuf[u] # << >>
                          THEN "send on closed channel"
                          ELSE ""

\* Register closing the producer handles as Unregister does.
RegisterClosesChans ==
    /\ panicked = ""
    /\ ~finalized
    /\ regCalls + unregCalls < MaxCalls
    /\ \E ok \in (IF token = 0 THEN BOOLEAN ELSE {TRUE}) :
          /\ register(ok)
          /\ ret' = <<"Register", IF ok THEN "ok" ELSE "err">>
    /\ closeIns(keydownIn, keyupIn)
    /\ UNCHANGED <<nchans, wpc, q, outClosed, sendBuf, consVars, keydownIn,
                   keydownOut, keyupIn, keyupOut, fpc, sent, nextEv,
                   KeyMap>>

\* Register dropping the error of hk.register().
RegisterSwallowsError ==
    /\ panicked = ""
    /\ ~finalized
    /\ regCalls + unregCalls < MaxCalls
    /\ \E ok \in (IF token = 0 THEN BOOLEAN ELSE {TRUE}) : register(ok)
    /\ ret' = <<"Register", "ok">>
    /\ UNCHANGED <<chanVars, consVars, keydownIn, keydownOut, keyupIn,
                   keyupOut, fpc, histVars, KeyMap>>

\* Register recording the Hotkey's key in KeyMap under a name of its own.
RegisterRecordsKey ==
    /\ panicked = ""
    /\ ~finalized
    /\ regCalls + unregCalls < MaxCalls
    /\ \E ok \in (IF token = 0 THEN BOOLEAN ELSE {TRUE}) :
          /\ register(ok)
          /\ ret' = <<"Register", IF ok THEN "ok" ELSE "err">>
    /\ KeyMap' = [n \in DOMAIN KeyMap \cup {"KeyHotkey"} |->
                     IF n \in DOMAIN KeyMap THEN KeyMap[n] ELSE "KeySpace"]
    /\ UNCHANGED <<chanVars, consVars, keydownIn, keydownOut, keyupIn,
                   keyupOut, fpc, histVars>>

\* Register (l.87-90): hk.register() and nothing else.
Register ==
    /\ panicked = ""
    /\ ~finalized
    /\ regCalls + unregCalls < MaxCalls
    /\ \E ok \in (IF token = 0 THEN BOOLEAN ELSE {TRUE}) :
          /\ register(ok)
          /\ ret' = <<"Register", IF ok THEN "ok" ELSE "err">>
    /\ UNCHANGED <<chanVars, consVars, keydownIn, keydownOut, keyupIn,
                   keyupOut, fpc, histVars, KeyMap>>

\* Keydown (l.92-93) and Keyup (l.95-96) return the current consumer handles;
\* they change nothing.
Keydown == keydownOut

Keyup == keyupOut

\* Unregister without l.108-109: the closed channels stay in place.
UnregisterNoReplace ==
    /\ panicked = ""
    /\ ~finalized
    /\ regCalls + unregCalls < MaxCalls
    /\ \E ok \in BOOLEAN :
          /\ unregister(ok)
          /\ IF ~ok
               THEN /\ ret' = <<"Unregister", "err">>
                    /\ UNCHANGED <<inClosed, panicked>>
               ELSE /\ ret' = <<"Unregister", "ok">>
                    /\ closeIns(keydownIn, keyupIn)
    /\ UNCHANGED <<nchans, wpc, q, outClosed, sendBuf, keydownIn, keydownOut,
                   keyupIn, keyupOut, consVars, fpc, sent, nextEv,
                   KeyMap>>

\* Unregister storing only the consumer sides of the fresh channels: keydownIn
\* and keyupIn keep the closed producer handles.
UnregisterKeepsIn ==
    /\ panicked = ""
    /\ ~finalized
    /\ regCalls + unregCalls < MaxCalls
    /\ \E ok \in BOOLEAN :
          /\ unregister(ok)
          /\ IF ~ok
               THEN /\ ret' = <<"Unregister", "err">>
                    /\ UNCHANGED <<chanVars, keydownOut, keyupOut, panicked>>
               ELSE /\ nchans + 2 <= MaxChans
                    /\ ret' = <<"Unregister", "ok">>
                    /\ closeIns(keydownIn, keyupIn)
                    /\ wpc' = [wpc EXCEPT ![nchans + 1] = newEventChan.wpc,
                                           ![nchans + 2] = newEventChan.wpc]
                    /\ nchans' = nchans + 2
                    /\ keydownOut' = nchans + 1
                    /\ keyupOut' = nchans + 2
                    /\ UNCHANGED <<q, outClosed, sendBuf>>
    /\ UNCHANGED <<keydownIn, keyupIn, consVars, fpc, sent, nextEv,
                   KeyMap>>

\* Unregister calling hk.unregister() a second time when the first call fails.
UnregisterRetries ==
    /\ panicked = ""
    /\ ~finalized
    /\ regCalls + unregCalls < MaxCalls
    /\ \E ok \in BOOLEAN :
          IF ~ok
            THEN /\ unregCalls' = unregCalls + 2
                 /\ ret' = <<"Unregister", "err">>
                 /\ UNCHANGED <<token, live, releases, regCalls, chanVars,
                                keydownIn, keydownOut, keyupIn, keyupOut,
                                panicked>>
            ELSE /\ unregister(ok)
                 /\ nchans + 2 <= MaxChans
                 /\ ret' = <<"Unregister", "ok">>
                 /\ closeIns(keydownIn, keyupIn)
                 /\ wpc' = [wpc EXCEPT ![nchans + 1] = newEventChan.wpc,
                                        ![nchans + 2] = newEventChan.wpc]
                 /\ nchans' = nchans + 2
                 /\ keydownIn' = nchans + 1 /\ keydownOut' = nchans + 1
                 /\ keyupIn' = nchans + 2 /\ keyupOut' = nchans + 2
                 /\ UNCHANGED <<q, outClosed, sendBuf>>
    /\ UNCHANGED <<consVars, fpc, sent, nextEv, KeyMap>>

\* Unregister closing the producer handles before it looks at the error.
UnregisterClosesFirst ==
    /\ panicked = ""
    /\ ~finalized
    /\ regCalls + unregCalls < MaxCalls
    /\ \E ok \in BOOLEAN :
          /\ unregister(ok)
          /\ closeIns(keydownIn, keyupIn)
          /\ IF ~ok
               THEN /\ ret' = <<"Unregister", "err">>
                    /\ UNCHANGED <<nchans, wpc, keydownIn, keydownOut, keyupIn,
                                   keyupOut>>
               ELSE /\ nchans + 2 <= MaxChans
                    /\ ret' = <<"Unregister", "ok">>
                    /\ wpc' = [wpc EXCEPT ![nchans + 1] = newEventChan.wpc,
                                           ![nchans + 2] = newEventChan.wpc]
                    /\ nchans' = nchans + 2
                    /\ keydownIn' = nchans + 1 /\ keydownOut' = nchans + 1
                    /\ keyupIn' = nchans + 2 /\ keyupOut' = nchans + 2
    /\ UNCHANGED <<q, outClosed, sendBuf, consVars, fpc, sent, nextEv,
                   KeyMap>>

\* Unregister handing out fresh consumer handles while the callback keeps the
\* old producer handles, which stay open.
UnregisterReplacesOutOnly ==
    /\ panicked = ""
    /\ ~finalized
    /\ regCalls + unregCalls < MaxCalls
    /\ \E ok \in BOOLEAN :
          /\ unregister(ok)
          /\ IF ~ok
               THEN /\ ret' = <<"Unregister", "err">>
                    /\ UNCHANGED <<nchans, wpc, keydownOut, keyupOut>>
               ELSE /\ nchans + 2 <= MaxChans
                    /\ ret' = <<"Unregister", "ok">>
                    /\ wpc' = [wpc EXCEPT ![nchans + 1] = newEventChan.wpc,
                                           ![nchans + 2] = newEventChan.wpc]
                    /\ nchans' = nchans + 2
                    /\ keydownOut' = nchans + 1
                    /\ keyupOut' = nchans + 2
    /\ UNCHANGED <<q, inClosed, outClosed, sendBuf, keydownIn, keyupIn,
                   consVars, fpc, histVars, KeyMap>>

\* Unregister dropping the error of hk.unregister(), as the finalizer does.
UnregisterSwallowsError ==
    /\ panicked = ""
    /\ ~finalized
    /\ regCalls + unregCalls < MaxCalls
    /\ \E ok \in BOOLEAN : unregister(ok)
    /\ nchans + 2 <= MaxChans
    /\ ret' = <<"Unregister", "ok">>
    /\ closeIns(keydownIn, keyupIn)
    /\ wpc' = [wpc EXCEPT ![nchans + 1] = newEventChan.wpc,
                           ![nchans + 2] = newEventChan.wpc]
    /\ nchans' = nchans + 2
    /\ keydownIn' = nchans + 1 /\ keydownOut' = nchans + 1
    /\ keyupIn' = nchans + 2 /\ keyupOut' = nchans + 2
    /\ UNCHANGED <<q, outClosed, sendBuf, consVars, fpc, sent, nextEv,
                   KeyMap>>

\* Unregister with l.109 assigning to keydownIn where it should to keyupIn:
\* keydownIn is the producer side of the second fresh channel, keydownOut the
\* consumer side of the first, and keyupIn stays the closed handle.
UnregisterMixesHandles ==
    /\ panicked = ""
    /\ ~finalized
    /\ regCalls + unregCalls < MaxCalls
    /\ \E ok \in BOOLEAN :
          /\ unregister(ok)
          /\ IF ~ok
               THEN /\ ret' = <<"Unregister", "err">>
                    /\ UNCHANGED <<chanVars, keydownIn, keydownOut, keyupOut,
                                   panicked>>
               ELSE /\ nchans + 2 <= MaxChans
                    /\ ret' = <<"Unregister", "ok">>
                    /\ closeIns(keydownIn, keyupIn)
                    /\ wpc' = [wpc EXCEPT ![nchans + 1] = newEventChan.wpc,
                                           ![nchans + 2] = newEventChan.wpc]
                    /\ nchans' = nchans + 2
                    /\ keydownIn' = nchans + 2 /\ keydownOut' = nchans + 1
                    /\ keyupOut' = nchans + 2
                    /\ UNCHANGED <<q, outClosed, sendBuf>>
    /\ UNCHANGED <<keyupIn, consVars, fpc, sent, nextEv, KeyMap>>

\* Unregister (l.98-111): hk.unregister(); on an error return it (l.101-103);
\* else close both producer handles (l.106-107) and put two fresh channels in
\* their place (l.108-109).
Unregister ==
    /\ panicked = ""
    /\ ~finalized
    /\ regCalls + unregCalls < MaxCalls
    /\ \E ok \in BOOLEAN :
          /\ unregister(ok)
          /\ IF ~ok
               THEN /\ ret' = <<"Unregister", "err">>
                    /\ UNCHANGED <<chanVars, keydownIn, keydownOut, keyupIn,
                                   keyupOut, panicked>>
               ELSE /\ nchans + 2 <= MaxChans
                    /\ ret' = <<"Unregister", "ok">>
                    /\ closeIns(keydownIn, keyupIn)
                    /\ wpc' = [wpc EXCEPT ![nchans + 1] = newEventChan.wpc,
                                           ![nchans + 2] = newEventChan.wpc]
                    /\ nchans' = nchans + 2
                    /\ keydownIn' = nchans + 1 /\ keydownOut' = nchans + 1
                    /\ keyupIn' = nchans + 2 /\ keyupOut' = nchans + 2
                    /\ UNCHANGED <<q, outClosed, sendBuf>>
    /\ UNCHANGED <<consVars, fpc, sent, nextEv, KeyMap>>

\* One close(in) (l.81, l.82).  Closing a closed channel panics, and so does
\* the sender blocked on the channel that is closed under it.
closeIn(c) ==
    /\ inClosed' = [inClosed EXCEPT ![c] = TRUE]
    /\ panicked' = IF inClosed[c]
                     THEN "close of closed channel"
                     ELSE IF sendBuf[c] # << >>
                          THEN "send on closed channel"
                          ELSE ""

\* The finalizer going on to its closes without hk.unregister() (l.80).
FinalizerNoUnregister ==
    /\ panicked = ""
    /\ fpc = "idle"
    /\ callbackIdle
    /\ fpc' = "l81"
    /\ UNCHANGED <<chanVars, consVars, keydownIn, keydownOut, keyupIn,
                   keyupOut, token, ret, beVars, histVars, KeyMap>>

\* The finalizer set by New (l.76-83) runs in a goroutine of its own, once,
\* when nothing refers to hk any more: the application makes no further call
\* and no callback is running on hk.  Its first statement (l.80) is
\* hk.unregister(), with the error dropped.
FinalizerUnregister ==
    /\ panicked = ""
    /\ fpc = "idle"
    /\ callbackIdle
    /\ \E ok \in BOOLEAN : unregister(ok)
    /\ fpc' = "l81"
    /\ UNCHANGED <<chanVars, consVars, keydownIn, keydownOut, keyupIn,
                   keyupOut, ret, histVars, KeyMap>>

\* l.81: close(hk.keydownIn).
FinalizerCloseKeydown ==
    /\ panicked = ""
    /\ fpc = "l81"
    /\ closeIn(keydownIn)
    /\ fpc' = "l82"
    /\ UNCHANGED <<nchans, wpc, q, outClosed, sendBuf, consVars, keydownIn,
                   keydownOut, keyupIn, keyupOut, token, ret, beVars, sent,
                   nextEv, KeyMap>>

\* l.82: close(hk.keyupIn); the finalizer returns.
FinalizerCloseKeyup ==
    /\ panicked = ""
    /\ fpc = "l82"
    /\ closeIn(keyupIn)
    /\ fpc' = "done"
    /\ UNCHANGED <<nchans, wpc, q, outClosed, sendBuf, consVars, keydownIn,
                   keydownOut, keyupIn, keyupOut, token, ret, beVars, sent,
                   nextEv, KeyMap>>

-----------------------------------------------------------------------------
Next ==
    \/ Register
    \/ Unregister
    \/ FinalizerUnregister
    \/ FinalizerCloseKeydown
    \/ FinalizerCloseKeyup
    \/ OnKeydown
    \/ OnKeyup
    \/ \E c \in ChanIds : WorkerRecv(c)
    \/ \E c \in ChanIds : WorkerExit(c)
    \/ \E c \in ChanIds : WorkerSelectOut(c)
    \/ \E c \in ChanIds : WorkerSelectIn(c)
    \/ \E c \in ChanIds : WorkerSelectClosed(c)
    \/ \E c \in ChanIds : WorkerDrain(c)
    \/ \E c \in ChanIds : RecvBegin(c)
    \/ \E c \in ChanIds : RecvClosed(c)

Spec == Init /\ [][Next]_vars

\* One worker goroutine: whichever of its steps is possible.
Worker(c) ==
    \/ WorkerRecv(c)
    \/ WorkerExit(c)
    \/ WorkerSelectOut(c)
    \/ WorkerSelectIn(c)
    \/ WorkerSelectClosed(c)
    \/ WorkerDrain(c)

\* The same behaviours under the scheduling the Go run time guarantees: it runs
\* a goroutine that can take a step, that is every worker, a consumer whose
\* blocked receive can return because out is closed, and the finalizer once it
\* has been started.  Nothing is assumed of
\* the application, the backend, the collector, or of a consumer starting a
\* receive.
FairSpec ==
    /\ Init /\ [][Next]_vars
    /\ \A c \in ChanIds : WF_vars(Worker(c))
    /\ \A c \in ChanIds : WF_vars(cwait[c] /\ RecvClosed(c))
    /\ WF_vars(FinalizerCloseKeydown \/ FinalizerCloseKeyup)

TypeOK ==
    /\ nchans \in 2..MaxChans
    /\ \A c \in ChanIds :
          /\ wpc[c] \in {"none", "recv", "select", "drain", "done"}
          /\ Len(sendBuf[c]) <= 1
          /\ c \notin Allocated => wpc[c] = "none"
    /\ token \in 0..MaxCalls
    /\ nextEv \in 0..MaxEvents
    /\ fpc \in {"idle", "l81", "l82", "done"}

-----------------------------------------------------------------------------
\* The EventChannel (section 4.1 of the specification).

\* C1: N sends, then close, then the consumer's first receive: the consumer
\* observes exactly the N Events in the order sent and then the
\* closed-indication.  (a) When in is closed after every send has returned, on
\* a consumer that has received nothing and is not waiting, the worker holds
\* every Event sent, in order.  (b) From then on nothing is added,
\* every receive takes the head of what is left, and the closed-indication
\* comes only when nothing is left.
C1_SendsThenCloseThenReceive ==
    /\ [][\A c \in ChanIds :
            (~inClosed[c] /\ inClosed'[c] /\ sendBuf[c] = << >>
               /\ recvd[c] = << >> /\ ~cwait[c])
            => /\ q'[c] = sent'[c]
               /\ sendBuf'[c] = << >>
               /\ ~outClosed'[c] /\ ~sawClosed'[c]]_vars
    /\ [][\A c \in ChanIds :
            inClosed[c]
            => /\ sent'[c] = sent[c]
               /\ recvd'[c] \o q'[c] = recvd[c] \o q[c]
               /\ IsPrefix(recvd[c], recvd'[c])
               /\ sawClosed'[c] => (q'[c] = << >> /\ recvd'[c] = sent[c])]_vars

\* Two Events were sent and in was closed before the consumer did anything.
C1_Witness ==
    \E c \in ChanIds :
        /\ inClosed[c] /\ Len(q[c]) = 2 /\ q[c] = sent[c]
        /\ recvd[c] = << >> /\ ~cwait[c]

\* C2: whatever the interleaving of sends, worker steps and receives, what the
\* consumer has received is a prefix of what the producer has sent, and the
\* Events were sent in the order of their firings: nothing is reordered,
\* duplicated or invented.
C2_Fifo ==
    \A c \in ChanIds :
        /\ IsPrefix(recvd[c], sent[c])
        /\ \A i, j \in 1..Len(sent[c]) : i < j => sent[c][i] < sent[c][j]
        /\ \A i \in 1..Len(sent[c]) : sent[c][i] \in 1..nextEv

\* The consumer received the first Event while the second was still queued.
C2_Witness ==
    \E c \in ChanIds : Len(recvd[c]) = 1 /\ Len(q[c]) = 1 /\ ~inClosed[c]

\* C3: a send on an open producer handle returns without any receive: under
\* fair scheduling of the worker, a blocked send is always accepted, whatever
\* the consumer does and however many Events are queued, in every run of the
\* program.
C3_SendReturns ==
    \A c \in ChanIds : (sendBuf[c] # << >>) ~> (sendBuf[c] = << >>)

\* C4: when out is closed, every Event sent has been received, the worker
\* holds nothing and has returned: the closed-indication never overtakes an
\* Event, and no Event can follow it.
C4_ClosedAfterDrain ==
    \A c \in ChanIds :
        outClosed[c] => /\ inClosed[c]
                        /\ recvd[c] = sent[c]
                        /\ q[c] = << >>
                        /\ sendBuf[c] = << >>
                        /\ wpc[c] = "done"

\* The consumer saw the closed-indication after two Events.
C4_Witness ==
    \E c \in ChanIds : sawClosed[c] /\ Len(recvd[c]) = 2

\* C5: a consumer blocked in receive with nothing pending is eventually
\* unblocked with the closed-indication once in is closed, in every run of the
\* program; closing a channel on which nothing was sent gives the
\* closed-indication and no Event.
C5_CloseUnblocks ==
    \A c \in ChanIds :
        (cwait[c] /\ inClosed[c] /\ recvd[c] = sent[c])
        ~> (sawClosed[c] /\ ~cwait[c] /\ recvd[c] = sent[c])

-----------------------------------------------------------------------------
\* The Hotkey lifecycle (section 4.2 of the specification).

\* The steps of the lifecycle, told by what they count.
RegisterStep == regCalls' # regCalls
UnregisterOkStep ==
    unregCalls' # unregCalls /\ ~finalized' /\ ret' = <<"Unregister", "ok">>
FinalizerStep == ~finalized /\ finalized'
FinalizerCloseStep == fpc \in {"l81", "l82"} /\ fpc' # fpc

\* The producer handle that the finalizer's next close is for.
Closing == IF fpc = "l81" THEN keydownIn ELSE keyupIn

\* What a step leaves alone when it does not touch the channels.
ChannelsUntouched ==
    /\ Keydown' = Keydown /\ Keyup' = Keyup
    /\ keydownIn' = keydownIn /\ keyupIn' = keyupIn
    /\ UNCHANGED <<nchans, wpc, q, inClosed, outClosed, sendBuf, recvd, sent,
                   sawClosed, cwait>>

\* C6: Register on a Registered Hotkey succeeds, releases the old token (once)
\* and binds a fresh one, and leaves both channels as they are: the handles
\* Keydown() and Keyup() return are the same and still open, and every queued
\* Event is still queued.
C6_ReRegisterKeepsChannels ==
    [][(RegisterStep /\ token # 0)
       => /\ ret' = <<"Register", "ok">>
          /\ token' \notin {0, token}
          /\ live' = {token'}
          /\ releases[token] = 0
          /\ releases' = [releases EXCEPT ![token] = 1]
          /\ ChannelsUntouched
          /\ ~inClosed'[Keydown'] /\ ~inClosed'[Keyup']
          /\ ~outClosed'[Keydown'] /\ ~outClosed'[Keyup']
          /\ panicked' = ""]_vars

\* A second Register has rebound the Hotkey while an Event is queued, unread.
C6_Witness ==
    /\ ret = <<"Register", "ok">>
    /\ regCalls = 2 /\ token = 2 /\ releases[1] = 1 /\ live = {2}
    /\ Keydown = 1 /\ ~inClosed[1] /\ q[1] # << >>

\* C7: a successful Unregister puts fresh handles in place, distinct from every
\* handle returned before, and closes the old producer handles with their
\* queues as they were; a consumer of a handle that is no longer current then
\* receives what was queued on it, in order, and after that the
\* closed-indication.
C7_UnregisterReplacesChannels ==
    /\ [][UnregisterOkStep
           => /\ Keydown' \notin Allocated /\ Keyup' \notin Allocated
              /\ Keydown' # Keyup'
              /\ ~inClosed'[Keydown'] /\ ~inClosed'[Keyup']
              /\ inClosed'[Keydown] /\ inClosed'[Keyup]
              /\ q'[Keydown] = q[Keydown] /\ q'[Keyup] = q[Keyup]
              /\ recvd' = recvd /\ sent' = sent]_vars
    /\ [][\A c \in Allocated :
            c \notin {Keydown, Keyup}
            => /\ inClosed[c]
               /\ sent'[c] = sent[c]
               /\ recvd'[c] \o q'[c] = recvd[c] \o q[c]
               /\ IsPrefix(recvd[c], recvd'[c])
               /\ sawClosed'[c] => q'[c] = << >>]_vars

\* After an Unregister the consumer of the old key-down handle has received an
\* Event and then the closed-indication.
C7_Witness ==
    /\ nchans = 4 /\ Keydown = 3 /\ Keyup = 4
    /\ sawClosed[1] /\ recvd[1] # << >>

\* C8: when the backend refuses to register an Unregistered Hotkey, Register
\* returns the error and nothing else has changed: no token, the same open
\* channels, the same queued Events.
C8_RefusedRegisterChangesNothing ==
    [][(RegisterStep /\ token = 0 /\ live' = live)
       => /\ ret' = <<"Register", "err">>
          /\ token' = 0
          /\ releases' = releases
          /\ unregCalls' = unregCalls
          /\ ChannelsUntouched
          /\ panicked' = ""]_vars

\* A Register was refused.
C8_Witness ==
    /\ ret = <<"Register", "err">>
    /\ regCalls = 1 /\ token = 0 /\ live = {}
    /\ ~inClosed[Keydown] /\ ~inClosed[Keyup]

C10_FinalizerAfterUnregister ==
    /\ [][(FinalizerStep /\ ret = <<"Unregister", "ok">>)
           => /\ releases' = releases
              /\ live' = live
              /\ token = 0 /\ token' = 0
              /\ inClosed' = inClosed
              /\ panicked' = ""]_vars
    /\ [][(FinalizerCloseStep /\ ret = <<"Unregister", "ok">>)
           => /\ ~inClosed[Closing]
              /\ inClosed' = [inClosed EXCEPT ![Closing] = TRUE]
              /\ releases' = releases /\ live' = live /\ token' = 0
              /\ panicked' = ""]_vars

\* The finalizer ran after Register and a successful Unregister.
C10_Witness ==
    /\ fpc = "done" /\ ret = <<"Unregister", "ok">>
    /\ regCalls = 1 /\ releases[1] = 1
    /\ nchans = 4 /\ inClosed[3] /\ inClosed[4]
    /\ panicked = ""

-----------------------------------------------------------------------------
\* Teardown and the lifecycle as a whole.

\* C11: no worker is leaked by teardown: once the producer handle of a channel
\* is closed (by the finalizer or by Unregister), its worker eventually closes
\* out and returns, whatever was queued and whether or not a consumer still
\* receives (a process that died of a panic has no goroutines left).
C11_NoWorkerLeak ==
    \A c \in ChanIds :
        inClosed[c] ~> ((wpc[c] = "done" /\ outClosed[c]) \/ panicked # "")

\* C12: a run of one successful Register, k key-down and m key-up firings in
\* any order, and one successful Unregister.  (a) Every call makes exactly one
\* call of the backend: no step makes two, and none makes a register and an
\* unregister call.  (b) After the run every firing was accepted, on the
\* key-down or on the key-up channel of New (k + m in all), both producer
\* handles are closed with nothing lost, and a consumer of a handle fetched
\* before the Unregister has received a prefix of the Events of its kind and,
\* once it sees the closed-indication, exactly all of them; the backend has
\* recorded one register call and one unregister call.
C12_RegisterFireUnregister ==
    /\ [][/\ regCalls' \in {regCalls, regCalls + 1}
          /\ unregCalls' \in {unregCalls, unregCalls + 1}
          /\ regCalls' = regCalls \/ unregCalls' = unregCalls
          /\ ret' # ret
                => regCalls' + unregCalls' = regCalls + unregCalls + 1]_vars
    /\ []((ret = <<"Unregister", "ok">> /\ ~finalized
             /\ regCalls = 1 /\ unregCalls = 1 /\ releases[1] = 1)
           => /\ token = 0 /\ live = {}
              /\ nchans = 4 /\ Keydown = 3 /\ Keyup = 4
              /\ callbackIdle
              /\ Len(sent[1]) + Len(sent[2]) = nextEv
              /\ sent[3] = << >> /\ sent[4] = << >>
              /\ \A c \in {1, 2} :
                    /\ inClosed[c]
                    /\ recvd[c] \o q[c] = sent[c]
                    /\ sawClosed[c] => recvd[c] = sent[c]
              /\ panicked = "")

\* The run with k = 1 and m = 1: both consumers have received their Event and
\* then the closed-indication.
C12_Witness ==
    /\ ret = <<"Unregister", "ok">> /\ ~finalized
    /\ regCalls = 1 /\ unregCalls = 1 /\ releases[1] = 1
    /\ sawClosed[1] /\ Len(recvd[1]) = 1
    /\ sawClosed[2] /\ Len(recvd[2]) = 1

\* C13: KeyMap holds exactly the 65 key names that TestKeyMap lists, each bound
\* to its Key constant, and no operation on a Hotkey (New, Register,
\* Unregister, the accessors, the finalizer) nor any step of a worker, a
\* callback or a consumer adds, removes or changes an entry.
C13_KeyMapFixed ==
    /\ Len(keyMapKeys) = 65
    /\ Cardinality(DOMAIN KeyMap) = 65
    /\ DOMAIN KeyMap = {keyMapKeys[i] : i \in 1..Len(keyMapKeys)}
    /\ KeyMap = keyMapLiteral

\* Register, Unregister and the finalizer have all run, and Events were
\* delivered.
C13_Witness ==
    /\ fpc = "done" /\ regCalls = 1 /\ nchans = 4
    /\ \E c \in ChanIds : recvd[c] # << >>
    /\ "KeyF20" \in DOMAIN KeyMap

\* C14: sending after close is unreachable: in every interleaving of callback
\* firings with Register, Unregister and the finalizer, no send is attempted
\* on a producer handle that is closed, and no handle is closed under a send
\* that is blocked on it.
C14_NoSendAfterClose == panicked # "send on closed channel"

\* C15: no producer handle is closed twice, whatever Register and Unregister
\* calls (succeeding or failing, on a Registered Hotkey or not) come before the
\* one run of the finalizer: a close of a closed channel never happens, the two
\* current handles are different channels, and until the finalizer has run
\* they are open, so that the next close finds them open.
C15_NoDoubleClose ==
    /\ panicked # "close of closed channel"
    /\ keydownIn # keyupIn
    /\ ~finalized => (~inClosed[keydownIn] /\ ~inClosed[keyupIn])
    /\ \A c \in ChanIds : inClosed[c] => c \in Allocated

\* A failed Unregister, a successful Unregister of a Hotkey that was never
\* Registered, and then the finalizer: all four handles closed, no panic.
C15_Witness ==
    /\ fpc = "done" /\ regCalls = 0 /\ unregCalls = 3
    /\ \A c \in 1..4 : inClosed[c]
    /\ panicked = ""

\* C16: the finalizer never propagates a failure: when the backend fails to
\* release the token (also after an Unregister that failed), the finalizer has
\* asked the backend once for the release, nothing is returned to anybody,
\* and it goes on to close both current producer handles without a panic.
C16_FinalizerSwallowsError ==
    /\ [][(FinalizerStep /\ token # 0 /\ token' = token)
           => /\ unregCalls' = unregCalls + 1
              /\ regCalls' = regCalls
              /\ live' = live /\ releases' = releases
              /\ ret' = ret
              /\ panicked' = ""]_vars
    /\ [][(FinalizerCloseStep /\ token # 0)
           => /\ ~inClosed[Closing] /\ inClosed'[Closing]
              /\ UNCHANGED <<keydownIn, keyupIn, keydownOut, keyupOut, q,
                             recvd, ret>>
              /\ panicked' = ""]_vars

\* C17: a consumer handle that Keydown()/Keyup() no longer return (one fetched
\* before a successful Unregister) gets no Event fired after that Unregister:
\* no send is ever aimed at its channel, and every Event its channel accepted
\* was fired before every Event aimed at or accepted by a current channel.
\* Events fired after Unregister and a new Register are on the current
\* handles only.
C17_OldHandleGetsNoNewEvent ==
    \A c \in Allocated :
        c \notin {Keydown, Keyup}
        => /\ sendBuf[c] = << >>
           /\ IsPrefix(recvd[c], sent[c])
           /\ \A d \in {Keydown, Keyup} :
                 \A i \in 1..Len(sent[c]) :
                    /\ \A j \in 1..Len(sent[d]) : sent[c][i] < sent[d][j]
                    /\ \A j \in 1..Len(sendBuf[d]) :
                          sent[c][i] < sendBuf[d][j]

\* After Unregister and Register an Event was fired and received on the new
\* key-down handle, while the consumer of the old one saw it closed, empty.
C17_Witness ==
    /\ ret = <<"Register", "ok">> /\ regCalls = 1 /\ unregCalls = 1
    /\ Keydown = 3 /\ recvd[3] # << >>
    /\ sawClosed[1] /\ recvd[1] = << >>

\* C18: when the backend fails to release the token, Unregister returns the
\* error and leaves the channels untouched: the token is still bound, neither
\* producer handle is closed, neither channel is replaced, Keydown() and
\* Keyup() return the same handles, and what was queued is still queued on an
\* open channel, to be received.
C18_FailedUnregisterKeepsChannels ==
    [][(unregCalls' # unregCalls /\ finalized' = finalized
          /\ token # 0 /\ token' = token)
       => /\ ret' = <<"Unregister", "err">>
          /\ unregCalls' = unregCalls + 1
          /\ regCalls' = regCalls
          /\ live' = live /\ releases' = releases
          /\ ChannelsUntouched
          /\ ~inClosed'[Keydown'] /\ ~inClosed'[Keyup']
          /\ ~outClosed'[Keydown'] /\ ~outClosed'[Keyup']
          /\ panicked' = ""]_vars

\* An Unregister has failed on a Registered Hotkey with an Event queued,
\* unread: the first channels are still current and open.
C18_Witness ==
    /\ ret = <<"Unregister", "err">> /\ ~finalized
    /\ token = 1 /\ live = {1} /\ unregCalls = 1
    /\ nchans = 2 /\ Keydown = 1 /\ ~inClosed[1]
    /\ q[1] # << >> /\ recvd[1] = << >>

\* C19: from New until the finalizer runs, whenever a public operation has
\* returned, the current key-down and key-up producer handles are open, each
\* has its worker running (at l.131 or in the select of l.138), and Keydown()
\* and Keyup() return the consumer sides of exactly these two channels, which
\* are open; nothing has panicked.
C19_CurrentChannelsLive ==
    ~finalized
    => /\ panicked = ""
       /\ {keydownIn, keyupIn} \subseteq Allocated
       /\ Keydown = keydownIn /\ Keyup = keyupIn
       /\ Keydown # Keyup
       /\ \A c \in {keydownIn, keyupIn} :
             /\ ~inClosed[c] /\ ~outClosed[c]
             /\ wpc[c] \in {"recv", "select"}

\* After Unregister and Register, with an Event queued on the new key-down
\* channel: its worker is in the select.
C19_Witness ==
    /\ ~finalized /\ ret = <<"Register", "ok">>
    /\ nchans = 4 /\ keydownIn = 3 /\ keyupIn = 4
    /\ wpc[3] = "select" /\ q[3] # << >> /\ wpc[4] = "recv"

\* The Events a channel has been handed: those accepted and the one of a
\* blocked send.
Handed(c) == {sent[c][i] : i \in 1..Len(sent[c])}
                 \cup {sendBuf[c][i] : i \in 1..Len(sendBuf[c])}

\* C20: the key-down and the key-up channel of a Hotkey are independent.  They
\* are two channels; no Event handed to one channel is handed to or received
\* from another; and whatever the other channel holds and whatever its
\* consumer does, the worker of a channel can accept a blocked send and can
\* hand the head of its queue to its waiting consumer: it waits for nothing
\* but its own sender and its own consumer.
C20_ChannelsIndependent ==
    /\ keydownIn # keyupIn /\ Keydown # Keyup
    /\ \A c, d \in ChanIds : c # d => Handed(c) \cap Handed(d) = {}
    /\ \A c \in ChanIds :
          /\ IsPrefix(recvd[c], sent[c])
          /\ (panicked = "" /\ sendBuf[c] # << >>)
               => ENABLED (WorkerRecv(c) \/ WorkerSelectIn(c))
          /\ (panicked = "" /\ cwait[c] /\ q[c] # << >>)
               => ENABLED (WorkerSelectOut(c) \/ WorkerDrain(c))

\* The key-down consumer has never received and the first Event is still
\* queued for it; the key-up Event fired after it has been delivered.
C20_Witness ==
    /\ keydownIn = 1 /\ keyupIn = 2
    /\ q[1] = <<1>> /\ recvd[1] = << >> /\ ~cwait[1]
    /\ recvd[2] = <<2>>
====
